---- MODULE Spec2Model ----
(***************************************************************************)
(* A model of the benchmark-function catalogue of src/src/lib.rs.          *)
(*                                                                         *)
(* The library is a set of pure functions over Vec<f64>.  A behaviour of   *)
(* the model is one call: one action per operation of the source chooses   *)
(* the caller's input, applies the operation and records what it returned  *)
(* or how it faulted.                                                      *)
(*                                                                         *)
(* f64 values are modelled by the abstract domain below.  Finite values    *)
(* are exact rationals (rounding is not modelled), NaN is a value of its   *)
(* own with IEEE comparison semantics, and the results of cos, exp and     *)
(* sqrt away from the arguments where they are exact are kept only as      *)
(* "some positive finite value" (pos) or "some f64" (any).  One value far   *)
(* below the precision of the others, 2^-60, is tracked (tiny): an         *)
(* addition of it to a value of magnitude >= 1 rounds to that value.       *)
(***************************************************************************)
EXTENDS Integers, Sequences, FiniteSets, TLC

\* ------------------------------------------------------------------ bounds
MaxLen == 3     \* longest input vector the caller supplies
MaxDim == 3     \* largest dimensionality requested besides LOW_D and HIGH_D

\* --------------------------------------------------------------- f64 values
RECURSIVE GCD(_, _)
GCD(a, b) == IF b = 0 THEN a ELSE GCD(b, a % b)

Abs(n) == IF n < 0 THEN -n ELSE n

LCM(a, b) == (a \div GCD(a, b)) * b

\* the finite f64 n/d, in lowest terms with a positive denominator
Fin(n, d) ==
  LET s == IF d < 0 THEN -1 ELSE 1
      g == GCD(Abs(n), Abs(d))
  IN  [k |-> "fin", n |-> (s * n) \div g, d |-> (s * d) \div g]

Int2F(n) == [k |-> "fin", n |-> n, d |-> 1]
NaN      == [k |-> "nan", n |-> 0, d |-> 1]
SomePos  == [k |-> "pos", n |-> 0, d |-> 1]   \* an untracked finite value > 0
SomeF64  == [k |-> "any", n |-> 0, d |-> 1]   \* an untracked f64
NoValue  == [k |-> "none", n |-> 0, d |-> 1]  \* nothing was returned (panic)
Tiny     == [k |-> "tiny", n |-> 0, d |-> 1]  \* the f64 2^-60
Zero     == Int2F(0)
One      == Int2F(1)

IsFin(a)  == a.k = "fin"
IsNaN(a)  == a.k = "nan"
IsTiny(a) == a.k = "tiny"
IsZero(a) == IsFin(a) /\ a.n = 0
Known(a)  == a.k \in {"fin", "nan", "tiny"}

\* std::f64::consts::PI and E, as rationals
PI    == Fin(3142, 1000)
E_F64 == Fin(2718, 1000)

FNeg(a) ==
  CASE IsNaN(a) -> NaN
    [] IsFin(a) -> [a EXCEPT !.n = -a.n]
    [] OTHER    -> SomeF64

\* a + 2^-60, rounded to nearest: a itself when |a| >= 1 (2^-60 is below a
\* quarter of the spacing of the f64 values around a)
AddTiny(a) ==
  IF a.n = 0 THEN Tiny
  ELSE IF Abs(a.n) >= a.d THEN a
  ELSE SomeF64

FAdd(a, b) ==
  CASE IsNaN(a) \/ IsNaN(b) -> NaN
    [] IsFin(a) /\ IsFin(b) ->
         LET l == LCM(a.d, b.d)
         IN  Fin(a.n * (l \div a.d) + b.n * (l \div b.d), l)
    [] IsFin(a) /\ IsTiny(b) -> AddTiny(a)
    [] IsTiny(a) /\ IsFin(b) -> AddTiny(b)
    [] IsTiny(a) /\ IsTiny(b) -> SomePos
    [] a.k = "pos" /\ b.k = "pos" -> SomePos
    [] a.k = "pos" /\ IsFin(b) /\ b.n >= 0 -> SomePos
    [] IsFin(a) /\ a.n >= 0 /\ b.k = "pos" -> SomePos
    [] OTHER -> SomeF64

FSub(a, b) == FAdd(a, FNeg(b))

\* a * 2^-60
MulTiny(a) ==
  IF a.n = 0 THEN Zero
  ELSE IF a = One THEN Tiny
  ELSE IF a.n > 0 THEN SomePos
  ELSE SomeF64

FMul(a, b) ==
  CASE IsNaN(a) \/ IsNaN(b) -> NaN
    [] IsFin(a) /\ IsFin(b) -> Fin(a.n * b.n, a.d * b.d)
    [] IsFin(a) /\ IsTiny(b) -> MulTiny(a)
    [] IsTiny(a) /\ IsFin(b) -> MulTiny(b)
    [] IsTiny(a) /\ IsTiny(b) -> SomePos
    [] IsZero(a) /\ b.k = "pos" -> Zero
    [] a.k = "pos" /\ IsZero(b) -> Zero
    [] a.k = "pos" /\ b.k = "pos" -> SomePos
    [] a.k = "pos" /\ IsFin(b) /\ b.n > 0 -> SomePos
    [] IsFin(a) /\ a.n > 0 /\ b.k = "pos" -> SomePos
    [] OTHER -> SomeF64

\* x / 0.0 is NaN for x = 0 and an infinity otherwise
FDiv(a, b) ==
  CASE IsNaN(a) \/ IsNaN(b) -> NaN
    [] IsFin(a) /\ IsFin(b) /\ b.n # 0 -> Fin(a.n * b.d, a.d * b.n)
    [] IsFin(a) /\ IsFin(b) /\ b.n = 0 -> IF a.n = 0 THEN NaN ELSE SomeF64
    [] IsZero(a) /\ b.k = "pos" -> Zero
    [] a.k = "pos" /\ b.k = "pos" -> SomePos
    [] OTHER -> SomeF64

\* f64::powi(self, n) for n >= 0, by repeated multiplication
RECURSIVE powi(_, _)
powi(a, n) == IF n = 0 THEN One ELSE FMul(a, powi(a, n - 1))

\* f64::powf(self, e): pow(x, 0) is 1 for every x, NaN included
powf(a, e) ==
  CASE IsZero(e) -> One
    [] e = One   -> a
    [] IsNaN(a) \/ IsNaN(e) -> NaN
    [] OTHER -> SomeF64

\* f64::sqrt
sqrt(a) ==
  CASE IsNaN(a) -> NaN
    [] IsFin(a) /\ a.n < 0 -> NaN
    [] IsZero(a) -> Zero
    [] a = One   -> One
    [] IsFin(a)  -> SomePos
    [] a.k \in {"pos", "tiny"} -> SomePos
    [] OTHER -> SomeF64

\* f64::cos: exact at 0 only
cos(a) ==
  CASE IsNaN(a)  -> NaN
    [] IsZero(a) -> One
    [] OTHER -> SomeF64

\* f64::exp: exp(0) = 1 and exp(1) = e
exp(a) ==
  CASE IsNaN(a)  -> NaN
    [] IsZero(a) -> One
    [] a = One   -> E_F64
    [] IsFin(a) \/ a.k = "pos" -> SomePos
    [] OTHER -> SomeF64

\* the comparisons of f64: every comparison with NaN is false.  They are
\* applied to tracked values (fin, tiny, nan) only; 2^-60 lies between 0 and
\* every positive rational of the model.
FLt(a, b) ==
  CASE IsFin(a) /\ IsFin(b)  -> a.n * b.d < b.n * a.d
    [] IsTiny(a) /\ IsFin(b) -> b.n > 0
    [] IsFin(a) /\ IsTiny(b) -> a.n <= 0
    [] OTHER -> FALSE
FGt(a, b) == FLt(b, a)
FEq(a, b) ==
  CASE IsFin(a) /\ IsFin(b)   -> a.n * b.d = b.n * a.d
    [] IsTiny(a) /\ IsTiny(b) -> TRUE
    [] OTHER -> FALSE
FLe(a, b) == FLt(a, b) \/ FEq(a, b)
FGe(a, b) == FLe(b, a)

\* vec![v; n]
Repeat(v, n) == [i \in 1..n |-> v]

\* the scalar result of a call: a value and the fault that ended it
Ok(v)     == [val |-> v, fault |-> "none"]
Panic(why) == [val |-> NoValue, fault |-> why]


\* x[i] of the source (0-based) is x[i + 1] here
At(x, i) == x[i + 1]

\* ------------------------------------------------------ program constants
LOW_D  == 2
HIGH_D == 137
\* usize::MAX, the value 0usize - 1 wraps to without overflow checks (the
\* largest integer of the model stands for 2^64 - 1)
UsizeMax == 2147483647

SingleObjectives ==
  {"Sphere", "Rastrigin", "Rosenbrock", "Ackley", "Matyas", "Griewank",
   "Ridge", "Zakharov", "Salomon"}
BoundedFns == SingleObjectives \ {"Sphere"}

\* SingleObjective::MINIMUM of each implementation
MINIMUM(F) == IF F = "Ridge" THEN Int2F(-5) ELSE Zero

\* Bounded::BOUNDS of each implementation, <<low, high>>
BOUNDS(F) ==
  CASE F = "Rastrigin"  -> <<Fin(-512, 100), Fin(512, 100)>>
    [] F = "Rosenbrock" -> <<Int2F(-5), Int2F(10)>>
    [] F = "Ackley"     -> <<Int2F(-5), Int2F(5)>>
    [] F = "Matyas"     -> <<Int2F(-10), Int2F(10)>>
    [] F = "Griewank"   -> <<Int2F(-600), Int2F(600)>>
    [] F = "Ridge"      -> <<Int2F(-5), Int2F(5)>>
    [] F = "Zakharov"   -> <<Int2F(-5), Int2F(10)>>
    [] F = "Salomon"    -> <<Int2F(-100), Int2F(100)>>

\* --------------------------------------------------------------- for loops
\* the bodies of the for loops of the nine f's: the loop's state after
\* iteration i, from the state before it

Sphere_body(x, i, acc) == Ok(FSub(acc, FMul(At(x, i), At(x, i))))

Rastrigin_body(x, i, fx) ==
  LET a == Int2F(10)
  IN  Ok(FAdd(fx, FSub(powi(At(x, i), 2),
                       FMul(a, cos(FMul(FMul(Int2F(2), At(x, i)), PI))))))

\* x[i+1] and x[i] are bounds-checked: an index outside x panics
Rosenbrock_body(x, i, fx) ==
  IF i + 1 >= Len(x) \/ i >= Len(x) THEN Panic("index_out_of_bounds")
  ELSE Ok(FAdd(fx,
               FAdd(FMul(Int2F(100),
                         powi(FSub(At(x, i + 1), powi(At(x, i), 2)), 2)),
                    powi(FSub(One, At(x, i)), 2))))

\* the accumulators <<square_sum, cosine_sum>>
Ackley_body(x, i, acc) ==
  Ok(<<FAdd(acc[1], powi(At(x, i), 2)),
       FAdd(acc[2], cos(FMul(FMul(Int2F(2), PI), At(x, i))))>>)

\* the accumulators <<square_sum, prod>>
Matyas_body(x, i, acc) ==
  Ok(<<FAdd(acc[1], powi(At(x, i), 2)), FMul(acc[2], At(x, i))>>)

\* the accumulators <<cosine_prod, square_sum>>
Griewank_body(x, i, acc) ==
  Ok(<<FMul(acc[1], cos(FDiv(At(x, i), sqrt(Int2F(i + 1))))),
       FAdd(acc[2], powi(At(x, i), 2))>>)

Ridge_body(x, i, square_sum) == Ok(FAdd(square_sum, powi(At(x, i), 2)))

\* the accumulators <<square_sum, sum_ixi>>
Zakharov_body(x, i, acc) ==
  Ok(<<FAdd(acc[1], powi(At(x, i), 2)),
       FAdd(acc[2], FMul(FMul(Fin(1, 2), At(x, i)), Int2F(i)))>>)

Salomon_body(x, i, square_sum) == Ok(FAdd(square_sum, powi(At(x, i), 2)))

\* the body of the loop of F::f
loop_body(F, x, i, acc) ==
  CASE F = "Sphere"     -> Sphere_body(x, i, acc)
    [] F = "Rastrigin"  -> Rastrigin_body(x, i, acc)
    [] F = "Rosenbrock" -> Rosenbrock_body(x, i, acc)
    [] F = "Ackley"     -> Ackley_body(x, i, acc)
    [] F = "Matyas"     -> Matyas_body(x, i, acc)
    [] F = "Griewank"   -> Griewank_body(x, i, acc)
    [] F = "Ridge"      -> Ridge_body(x, i, acc)
    [] F = "Zakharov"   -> Zakharov_body(x, i, acc)
    [] F = "Salomon"    -> Salomon_body(x, i, acc)

\* for i in lo..hi { st = body(x, i, st) }: the iterations run in order, each
\* on the state the one before left, and a panic ends the loop.  (The range
\* is walked by halves, which keeps the evaluation shallow.)
RECURSIVE for_range(_, _, _, _, _)
for_range(F, x, lo, hi, st) ==
  IF lo >= hi \/ st.fault # "none" THEN st
  ELSE IF hi - lo = 1 THEN loop_body(F, x, lo, st.val)
  ELSE LET mid  == lo + (hi - lo) \div 2
           left == for_range(F, x, lo, mid, st)
       IN  for_range(F, x, mid, hi, left)

\* ------------------------------------------------------------------ Sphere
Sphere_f(x) == for_range("Sphere", x, 0, Len(x), Ok(Zero))

Sphere_minimizer(n) == [val |-> Repeat(Zero, n), fault |-> "none"]

\* --------------------------------------------------------------- Rastrigin
Rastrigin_f(x) ==
  LET a == Int2F(10)
      n == Len(x)
  IN  for_range("Rastrigin", x, 0, n, Ok(FMul(a, Int2F(n))))

Rastrigin_minimizer(n) == [val |-> Repeat(Zero, n), fault |-> "none"]

\* -------------------------------------------------------------- Rosenbrock
\* n - 1 on usize: with overflow checks (debug builds) 0 - 1 panics, without
\* them (release builds) it wraps to usize::MAX
Rosenbrock_f(x, overflow_checks) ==
  LET n == Len(x)
  IN  IF n = 0 /\ overflow_checks THEN Panic("subtract_with_overflow")
      ELSE for_range("Rosenbrock", x, 0,
                     IF n = 0 THEN UsizeMax ELSE n - 1, Ok(Zero))

\* a faulty variant: the all-zero minimizer of the other functions, copied
Rosenbrock_minimizer_zeros(n) == [val |-> Repeat(Zero, n), fault |-> "none"]

Rosenbrock_minimizer(n) == [val |-> Repeat(One, n), fault |-> "none"]

\* ------------------------------------------------------------------ Ackley
Ackley_f(x) ==
  LET n   == Len(x)
      acc == for_range("Ackley", x, 0, n, Ok(<<Zero, Zero>>)).val
      square_sum == acc[1]
      cosine_sum == acc[2]
      fx1 == FAdd(Zero,
                  FMul(Int2F(-20),
                       exp(FMul(Fin(-2, 10),
                                sqrt(FMul(Fin(1, 2), square_sum))))))
      fx2 == FSub(fx1, exp(FDiv(cosine_sum, Int2F(n))))
  IN  Ok(FAdd(FAdd(fx2, E_F64), Int2F(20)))

Ackley_minimizer(n) == [val |-> Repeat(Zero, n), fault |-> "none"]

\* ------------------------------------------------------------------ Matyas
Matyas_f(x) ==
  LET acc == for_range("Matyas", x, 0, Len(x), Ok(<<Zero, One>>)).val
  IN  Ok(FSub(FMul(Fin(26, 100), acc[1]), FMul(Fin(48, 100), acc[2])))

Matyas_minimizer(n) == [val |-> Repeat(Zero, n), fault |-> "none"]

\* ---------------------------------------------------------------- Griewank
Griewank_f(x) ==
  LET acc == for_range("Griewank", x, 0, Len(x), Ok(<<One, Zero>>)).val
  IN  Ok(FSub(FAdd(One, FDiv(acc[2], Int2F(4000))), acc[1]))

Griewank_minimizer(n) == [val |-> Repeat(Zero, n), fault |-> "none"]

\* ------------------------------------------------------------------- Ridge
\* Ridge with the exponent alpha = 1: the sum of squares reaches the result
Ridge_f_alpha_one(x) ==
  LET n     == Len(x)
      d     == One
      alpha == One
      square_sum == for_range("Ridge", x, 1, n, Ok(Zero)).val
  IN  IF n = 0 THEN Panic("index_out_of_bounds")
      ELSE Ok(FAdd(FAdd(Int2F(-1), At(x, 0)), FMul(d, powf(square_sum, alpha))))

\* the loop runs over 1..n; x[0] is read after it and is bounds-checked
Ridge_f(x) ==
  LET n     == Len(x)
      d     == One
      alpha == Zero
      square_sum == for_range("Ridge", x, 1, n, Ok(Zero)).val
  IN  IF n = 0 THEN Panic("index_out_of_bounds")
      ELSE Ok(FAdd(FAdd(Int2F(-1), At(x, 0)), FMul(d, powf(square_sum, alpha))))

\* v[0] = -5.0 is bounds-checked
Ridge_minimizer(n) ==
  IF n = 0 THEN [val |-> <<>>, fault |-> "index_out_of_bounds"]
  ELSE [val |-> [Repeat(Zero, n) EXCEPT ![1] = Int2F(-5)], fault |-> "none"]

\* ---------------------------------------------------------------- Zakharov
Zakharov_f(x) ==
  LET acc == for_range("Zakharov", x, 0, Len(x), Ok(<<Zero, Zero>>)).val
  IN  Ok(FAdd(FAdd(acc[1], powi(acc[2], 2)), powi(acc[2], 4)))

Zakharov_minimizer(n) == [val |-> Repeat(Zero, n), fault |-> "none"]

\* ----------------------------------------------------------------- Salomon
Salomon_f(x) ==
  LET square_sum == for_range("Salomon", x, 0, Len(x), Ok(Zero)).val
  IN  Ok(FAdd(FSub(One, cos(FMul(FMul(Int2F(2), PI), sqrt(square_sum)))),
              FMul(Fin(1, 10), sqrt(square_sum))))

Salomon_minimizer(n) == [val |-> Repeat(Zero, n), fault |-> "none"]

\* ------------------------------------------------- the trait's dispatch
\* Self::f and Self::minimizer of the implementation F
f(F, x, overflow_checks) ==
  CASE F = "Sphere"     -> Sphere_f(x)
    [] F = "Rastrigin"  -> Rastrigin_f(x)
    [] F = "Rosenbrock" -> Rosenbrock_f(x, overflow_checks)
    [] F = "Ackley"     -> Ackley_f(x)
    [] F = "Matyas"     -> Matyas_f(x)
    [] F = "Griewank"   -> Griewank_f(x)
    [] F = "Ridge"      -> Ridge_f(x)
    [] F = "Zakharov"   -> Zakharov_f(x)
    [] F = "Salomon"    -> Salomon_f(x)

minimizer(F, n) ==
  CASE F = "Sphere"     -> Sphere_minimizer(n)
    [] F = "Rastrigin"  -> Rastrigin_minimizer(n)
    [] F = "Rosenbrock" -> Rosenbrock_minimizer(n)
    [] F = "Ackley"     -> Ackley_minimizer(n)
    [] F = "Matyas"     -> Matyas_minimizer(n)
    [] F = "Griewank"   -> Griewank_minimizer(n)
    [] F = "Ridge"      -> Ridge_minimizer(n)
    [] F = "Zakharov"   -> Zakharov_minimizer(n)
    [] F = "Salomon"    -> Salomon_minimizer(n)

\* assert_eq!(a, b): the outcomes of a == b; an untracked value may or may
\* not equal b
assert_eq(a, b) == IF Known(a) /\ Known(b) THEN {FEq(a, b)} ELSE BOOLEAN

\* SingleObjective::check_minimizer: the set of its possible outcomes
check_minimizer(F, d, overflow_checks) ==
  LET m == minimizer(F, d)
      r == f(F, m.val, overflow_checks)
  IN  IF m.fault # "none" THEN {m.fault}
      ELSE IF r.fault # "none" THEN {r.fault}
      ELSE {IF eq THEN "none" ELSE "assertion_failed" :
              eq \in assert_eq(r.val, MINIMUM(F))}

\* a faulty variant: the bounds themselves are rejected (<= and >= for < and >)
RECURSIVE in_bounds_range_strict(_, _, _, _)
in_bounds_range_strict(F, x, lo, hi) ==
  IF lo >= hi THEN TRUE
  ELSE IF hi - lo = 1
  THEN ~(FLe(At(x, lo), BOUNDS(F)[1]) \/ FGe(At(x, lo), BOUNDS(F)[2]))
  ELSE LET mid == lo + (hi - lo) \div 2
       IN  /\ in_bounds_range_strict(F, x, lo, mid)
           /\ in_bounds_range_strict(F, x, mid, hi)

\* Bounded::in_bounds over the elements lo..hi-1 of x, in order: the scan
\* stops (break) at the first element outside the bounds
RECURSIVE in_bounds_range(_, _, _, _)
in_bounds_range(F, x, lo, hi) ==
  IF lo >= hi THEN TRUE
  ELSE IF hi - lo = 1
  THEN ~(FLt(At(x, lo), BOUNDS(F)[1]) \/ FGt(At(x, lo), BOUNDS(F)[2]))
  ELSE LET mid == lo + (hi - lo) \div 2
       IN  in_bounds_range(F, x, lo, mid) /\ in_bounds_range(F, x, mid, hi)

in_bounds(F, x) == in_bounds_range(F, x, 0, Len(x))

\* UnBounded::in_bounds
UnBounded_in_bounds(x) == TRUE


\* ---------------------------------------------------------- ChankongHaimes
D  == 2
NH == 0
NG == 2

\* the result of a ChankongHaimes operation: the vector returned, the fault
\* that ended the call, and the coordinates of x read before it ended
VecOk(v, rd)      == [val |-> v, fault |-> "none", reads |-> rd]
VecPanic(why, rd) == [val |-> <<>>, fault |-> why, reads |-> rd]

\* a faulty variant: only an input that is too short is rejected
check_input_short_only(x) ==
  IF Len(x) < D THEN "dimensionality_mismatch" ELSE "none"

\* FixedDimensional::check_input: the fault it ends with
check_input(x) ==
  IF Len(x) # D THEN "dimensionality_mismatch" ELSE "none"

\* a faulty variant: the vector is sized by NG
equality_constraints_ng(x) == VecOk(Repeat(Zero, NG), {})

equality_constraints(x) == VecOk(Repeat(Zero, NH), {})

\* a faulty variant: the second constraint adds 3*x[1]
inequality_constraints_sign(x) ==
  LET fx == Repeat(Zero, NG)
      g0 == FSub(FAdd(powi(At(x, 0), 2), powi(At(x, 1), 2)), Int2F(225))
      g1 == FAdd(FAdd(At(x, 0), FMul(Int2F(3), At(x, 1))), Int2F(10))
  IN  IF Len(x) < 1 THEN VecPanic("index_out_of_bounds", {})
      ELSE IF Len(x) < 2 THEN VecPanic("index_out_of_bounds", {0})
      ELSE IF Len(fx) < 2 THEN VecPanic("index_out_of_bounds", {0, 1})
      ELSE VecOk([[fx EXCEPT ![1] = g0] EXCEPT ![2] = g1], {0, 1})

\* each assignment fx[j] = e evaluates e (reading x) and then indexes fx
inequality_constraints(x) ==
  LET fx == Repeat(Zero, NG)
      g0 == FSub(FAdd(powi(At(x, 0), 2), powi(At(x, 1), 2)), Int2F(225))
      g1 == FAdd(FSub(At(x, 0), FMul(Int2F(3), At(x, 1))), Int2F(10))
  IN  IF Len(x) < 1 THEN VecPanic("index_out_of_bounds", {})
      ELSE IF Len(x) < 2 THEN VecPanic("index_out_of_bounds", {0})
      ELSE IF Len(fx) < 2 THEN VecPanic("index_out_of_bounds", {0, 1})
      ELSE VecOk([[fx EXCEPT ![1] = g0] EXCEPT ![2] = g1], {0, 1})

h(x) == equality_constraints(x)

\* a faulty variant: the alias checks the input's length as f does
g_checked(x) ==
  IF check_input(x) # "none" THEN VecPanic(check_input(x), {})
  ELSE inequality_constraints(x)

g(x) == inequality_constraints(x)

ChankongHaimes_f(x) ==
  LET fx == Repeat(Zero, D)
      f0 == FSub(FAdd(Int2F(2), powi(FSub(At(x, 0), Int2F(2)), 2)),
                 powi(FSub(At(x, 1), One), 2))
      f1 == FSub(FMul(Int2F(9), At(x, 0)), powi(FSub(At(x, 1), One), 2))
  IN  IF check_input(x) # "none" THEN VecPanic(check_input(x), {})
      ELSE IF Len(x) < 1 THEN VecPanic("index_out_of_bounds", {})
      ELSE IF Len(x) < 2 THEN VecPanic("index_out_of_bounds", {0})
      ELSE IF Len(fx) < 2 THEN VecPanic("index_out_of_bounds", {0, 1})
      ELSE VecOk([[fx EXCEPT ![1] = f0] EXCEPT ![2] = f1], {0, 1})

\* ------------------------------------------------------------ the callers
\* the coordinates a caller passes to F: values around F's bounds (or around
\* zero for the functions without bounds), NaN and 2^-60
InputVals(F) ==
  IF F \in BoundedFns
  THEN {FSub(BOUNDS(F)[1], One), BOUNDS(F)[1], Zero, One,
        BOUNDS(F)[2], FAdd(BOUNDS(F)[2], One), NaN, Tiny}
  ELSE {Int2F(-1), Zero, One, Int2F(2), NaN, Tiny}

Inputs(F) == UNION {[1..n -> InputVals(F)] : n \in 0..MaxLen}

\* the dimensionalities passed to minimizer and check_minimizer
Dims == (0..MaxDim) \cup {LOW_D, HIGH_D}

VARIABLES
  fn,      \* the function called
  x,       \* the input vector passed to the call
  op,      \* the operation called, "none" before the call
  dim,     \* the dimensionality passed to minimizer / check_minimizer, or -1
  ret,     \* what the call returned (NoValue for a unit return or a panic)
  fault,   \* the panic that ended the call, or "none"
  reads    \* ChankongHaimes operations: the coordinates of x the call read

vars == <<fn, x, op, dim, ret, fault, reads>>

\* nothing has been called: the library has no state of its own
Init ==
  /\ fn = "none"
  /\ x = <<>>
  /\ op = "none"
  /\ dim = -1
  /\ ret = NoValue
  /\ fault = "none"
  /\ reads = {}

\* the call F::f(v) of the single-objective function F returned r
ScalarCall(F, v, r) ==
  /\ fn' = F
  /\ x' = v
  /\ op' = "f"
  /\ ret' = r.val
  /\ fault' = r.fault
  /\ UNCHANGED <<dim, reads>>

Call_Sphere_f ==
  /\ op = "none"
  /\ \E v \in Inputs("Sphere") : ScalarCall("Sphere", v, Sphere_f(v))

Call_Rastrigin_f ==
  /\ op = "none"
  /\ \E v \in Inputs("Rastrigin") : ScalarCall("Rastrigin", v, Rastrigin_f(v))

Call_Rosenbrock_f ==
  /\ op = "none"
  /\ \E v \in Inputs("Rosenbrock"), overflow_checks \in BOOLEAN :
       ScalarCall("Rosenbrock", v, Rosenbrock_f(v, overflow_checks))

Call_Ackley_f ==
  /\ op = "none"
  /\ \E v \in Inputs("Ackley") : ScalarCall("Ackley", v, Ackley_f(v))

Call_Matyas_f ==
  /\ op = "none"
  /\ \E v \in Inputs("Matyas") : ScalarCall("Matyas", v, Matyas_f(v))

Call_Griewank_f ==
  /\ op = "none"
  /\ \E v \in Inputs("Griewank") : ScalarCall("Griewank", v, Griewank_f(v))

Call_Ridge_f ==
  /\ op = "none"
  /\ \E v \in Inputs("Ridge") : ScalarCall("Ridge", v, Ridge_f(v))

Call_Zakharov_f ==
  /\ op = "none"
  /\ \E v \in Inputs("Zakharov") : ScalarCall("Zakharov", v, Zakharov_f(v))

Call_Salomon_f ==
  /\ op = "none"
  /\ \E v \in Inputs("Salomon") : ScalarCall("Salomon", v, Salomon_f(v))

Call_minimizer ==
  /\ op = "none"
  /\ \E F \in SingleObjectives, n \in Dims :
       /\ fn' = F
       /\ op' = "minimizer"
       /\ dim' = n
       /\ ret' = minimizer(F, n).val
       /\ fault' = minimizer(F, n).fault
  /\ UNCHANGED <<x, reads>>

Call_check_minimizer ==
  /\ op = "none"
  /\ \E F \in SingleObjectives, d \in Dims, overflow_checks \in BOOLEAN :
       \E outcome \in check_minimizer(F, d, overflow_checks) :
         /\ fn' = F
         /\ op' = "check_minimizer"
         /\ dim' = d
         /\ fault' = outcome
  /\ ret' = NoValue
  /\ UNCHANGED <<x, reads>>

Call_in_bounds ==
  /\ op = "none"
  /\ \E F \in BoundedFns :
       \E v \in Inputs(F) :
         /\ fn' = F
         /\ x' = v
         /\ ret' = in_bounds(F, v)
  /\ op' = "in_bounds"
  /\ UNCHANGED <<dim, fault, reads>>

Call_UnBounded_in_bounds ==
  /\ op = "none"
  /\ \E v \in Inputs("Sphere") :
       /\ x' = v
       /\ ret' = UnBounded_in_bounds(v)
  /\ fn' = "Sphere"
  /\ op' = "in_bounds"
  /\ UNCHANGED <<dim, fault, reads>>

Call_check_input ==
  /\ op = "none"
  /\ \E v \in Inputs("ChankongHaimes") :
       /\ x' = v
       /\ fault' = check_input(v)
  /\ fn' = "ChankongHaimes"
  /\ op' = "check_input"
  /\ ret' = NoValue
  /\ UNCHANGED <<dim, reads>>

\* the ChankongHaimes operation o, called with v, returned r
VecCall(o, v, r) ==
  /\ fn' = "ChankongHaimes"
  /\ x' = v
  /\ op' = o
  /\ ret' = r.val
  /\ fault' = r.fault
  /\ reads' = r.reads
  /\ UNCHANGED dim

Call_ChankongHaimes_f ==
  /\ op = "none"
  /\ \E v \in Inputs("ChankongHaimes") : VecCall("f", v, ChankongHaimes_f(v))

Call_equality_constraints ==
  /\ op = "none"
  /\ \E v \in Inputs("ChankongHaimes") :
       VecCall("equality_constraints", v, equality_constraints(v))

Call_inequality_constraints ==
  /\ op = "none"
  /\ \E v \in Inputs("ChankongHaimes") :
       VecCall("inequality_constraints", v, inequality_constraints(v))

Call_h ==
  /\ op = "none"
  /\ \E v \in Inputs("ChankongHaimes") : VecCall("h", v, h(v))

Call_g ==
  /\ op = "none"
  /\ \E v \in Inputs("ChankongHaimes") : VecCall("g", v, g(v))

Next ==
  \/ Call_Sphere_f
  \/ Call_Rastrigin_f
  \/ Call_Rosenbrock_f
  \/ Call_Ackley_f
  \/ Call_Matyas_f
  \/ Call_Griewank_f
  \/ Call_Ridge_f
  \/ Call_Zakharov_f
  \/ Call_Salomon_f
  \/ Call_minimizer
  \/ Call_check_minimizer
  \/ Call_in_bounds
  \/ Call_UnBounded_in_bounds
  \/ Call_check_input
  \/ Call_ChankongHaimes_f
  \/ Call_equality_constraints
  \/ Call_inequality_constraints
  \/ Call_h
  \/ Call_g

Spec == Init /\ [][Next]_vars

\* ================================================================== claims
AllFinite(v) == \A i \in 1..Len(v) : IsFin(v[i])

\* C1: for every single-objective function F and every dimensionality
\* d >= 1 (LOW_D = 2 and HIGH_D = 137 among them), F.f(F.minimizer(d)) equals
\* F.MINIMUM, so check_minimizer(d) returns without a fault; and Rosenbrock
\* at the all-ones vector of any length >= 2 evaluates to exactly 0.
C1_MinimizerAttainsMinimum ==
  /\ (op = "check_minimizer" /\ dim >= 1) => fault = "none"
  /\ (op = "f" /\ fn = "Rosenbrock" /\ Len(x) >= 2 /\ x = Repeat(One, Len(x)))
       => (fault = "none" /\ ret = Zero)

C1_Witness ==
  op = "check_minimizer" /\ fn = "Rosenbrock" /\ dim = HIGH_D /\ fault = "none"

\* C2: for Rosenbrock, Matyas, Zakharov and Ridge, every input x of length
\* n >= 1 (of finite coordinates) with in_bounds(x) has f(x) >= MINIMUM.
C2_DeclaredMinimumIsGlobal ==
  (/\ op = "f"
   /\ fn \in {"Rosenbrock", "Matyas", "Zakharov", "Ridge"}
   /\ Len(x) >= 1
   /\ AllFinite(x)
   /\ in_bounds(fn, x))
    => (fault = "none" /\ FGe(ret, MINIMUM(fn)))

\* C3: Sphere.f(x) >= 0.0 for every input x (of finite coordinates) of any
\* length n >= 1.
C3_SphereMinimumIsGlobal ==
  (op = "f" /\ fn = "Sphere" /\ Len(x) >= 1 /\ AllFinite(x))
    => (fault = "none" /\ FGe(ret, Zero))

\* C4: for every Bounded function and every input x, the empty one included,
\* in_bounds(x) is true if and only if every coordinate x[i] satisfies
\* low <= x[i] <= high.
C4_InBoundsIffEveryCoordinateInRange ==
  (op = "in_bounds" /\ fn \in BoundedFns)
    => (ret <=> \A i \in 1..Len(x) :
                  FLe(BOUNDS(fn)[1], x[i]) /\ FLe(x[i], BOUNDS(fn)[2]))

\* C5: for every Bounded function F and every n >= 1, F.minimizer(n) returns
\* a vector of n coordinates, each within [F.BOUNDS.0, F.BOUNDS.1], and
\* F.in_bounds accepts it.
C5_MinimizerInBounds ==
  (op = "minimizer" /\ fn \in BoundedFns /\ dim >= 1)
    => /\ fault = "none"
       /\ Len(ret) = dim
       /\ \A i \in 1..Len(ret) :
            FLe(BOUNDS(fn)[1], ret[i]) /\ FLe(ret[i], BOUNDS(fn)[2])
       /\ in_bounds(fn, ret)

C5_Witness ==
  /\ op = "minimizer" /\ fn = "Ridge" /\ dim = LOW_D /\ fault = "none"
  /\ ret[1] = BOUNDS("Ridge")[1]

\* C6: ChankongHaimes's check_input(x) and f(x) raise the dimensionality
\* mismatch for every input whose length differs from 2, before any
\* coordinate of x is read; for an input of length 2 neither faults and f
\* returns its result.
C6_DimensionalityMismatch ==
  /\ (op = "check_input" /\ fn = "ChankongHaimes")
       => fault = (IF Len(x) # 2 THEN "dimensionality_mismatch" ELSE "none")
  /\ (op = "f" /\ fn = "ChankongHaimes")
       => IF Len(x) # 2
          THEN fault = "dimensionality_mismatch" /\ reads = {} /\ ret = <<>>
          ELSE fault = "none" /\ Len(ret) = 2

C6_Witness ==
  /\ op = "f" /\ fn = "ChankongHaimes" /\ Len(x) = 3
  /\ fault = "dimensionality_mismatch"

\* C7: for every N-dimensional function and every input vector of any
\* length, the empty one included, f(x) returns a value and raises no fault.
C7_NDimensionalNeverFaults ==
  (op = "f" /\ fn \in SingleObjectives) => (fault = "none" /\ ret.k # "none")

\* the formulas of ChankongHaimes on the integers x0, x1
CH_f_expected(x0, x1) ==
  <<Int2F(2 + (x0 - 2) * (x0 - 2) - (x1 - 1) * (x1 - 1)),
    Int2F(9 * x0 - (x1 - 1) * (x1 - 1))>>
CH_g_expected(x0, x1) ==
  <<Int2F(x0 * x0 + x1 * x1 - 225), Int2F(x0 - 3 * x1 + 10)>>

\* C8: for every input x of length 2, ChankongHaimes.f(x) is
\* [2 + (x0-2)^2 - (x1-1)^2, 9*x0 - (x1-1)^2] and inequality_constraints(x)
\* is [x0^2 + x1^2 - 225, x0 - 3*x1 + 10]: f = (5, -1) and g = (-225, 10) at
\* (0, 0), f = (3, 9) and g = (-223, 8) at (1, 1).
C8_ChankongHaimesValues ==
  /\ (op = "f" /\ fn = "ChankongHaimes" /\ Len(x) = 2 /\ AllFinite(x))
       => /\ ret = CH_f_expected(x[1].n, x[2].n)
          /\ x = <<Zero, Zero>> => ret = <<Int2F(5), Int2F(-1)>>
          /\ x = <<One, One>> => ret = <<Int2F(3), Int2F(9)>>
  /\ (op = "inequality_constraints" /\ Len(x) = 2 /\ AllFinite(x))
       => /\ ret = CH_g_expected(x[1].n, x[2].n)
          /\ x = <<Zero, Zero>> => ret = <<Int2F(-225), Int2F(10)>>
          /\ x = <<One, One>> => ret = <<Int2F(-223), Int2F(8)>>

C8_Witness ==
  /\ op = "inequality_constraints" /\ x = <<One, One>>
  /\ ret = <<Int2F(-223), Int2F(8)>>

\* C9: for every input x of length 2, equality_constraints(x) has length
\* NH = 0, inequality_constraints(x) has length NG = 2, f(x) has length 2,
\* and none of the three calls faults.
C9_ResultLengths ==
  (fn = "ChankongHaimes" /\ Len(x) = 2)
    => /\ op = "equality_constraints" => (fault = "none" /\ Len(ret) = 0)
       /\ op = "inequality_constraints" => (fault = "none" /\ Len(ret) = 2)
       /\ op = "f" => (fault = "none" /\ Len(ret) = 2)

C9_Witness ==
  /\ op = "equality_constraints" /\ x = <<One, One>>
  /\ fault = "none" /\ ret = <<>>

\* C10: ChankongHaimes's constraint operations check no dimensionality: for
\* every input x longer than 2, inequality_constraints(x) and g(x) return
\* the 2-vector computed from x[0] and x[1] only and raise no fault, and
\* equality_constraints(x) and h(x) return the empty vector for an input of
\* any length.
C10_ConstraintsUnchecked ==
  /\ (op \in {"inequality_constraints", "g"} /\ Len(x) > 2)
       => /\ fault = "none"
          /\ reads = {0, 1}
          /\ Len(ret) = 2
          /\ (IsFin(x[1]) /\ IsFin(x[2]))
               => ret = CH_g_expected(x[1].n, x[2].n)
  /\ op \in {"equality_constraints", "h"} => (fault = "none" /\ ret = <<>>)

C10_Witness ==
  /\ op = "g" /\ Len(x) = 3 /\ x[3] = NaN /\ fault = "none"
  /\ ret = <<Int2F(-223), Int2F(8)>>


\* ---------------------------------------------------------------------- C11
\* C11 as stated: Ridge.f(x) equals x[0] for every non-empty input x (a NaN
\* coming back for a NaN x[0] counts as equal).
C11_RidgeEqualsFirstCoordinate ==
  (op = "f" /\ fn = "Ridge" /\ Len(x) >= 1) =>
    (fault = "none" /\ ret = x[1])

\* C11, amended: for every non-empty input x, Ridge.f(x) returns without a
\* fault the f64 value of (-1.0 + x[0]) + 1.0.  It is the value Ridge.f gives
\* to the one-element input <<x[0]>>, so it does not depend on x[1..] (zero
\* or NaN sums of squares included, the zeroth power being 1); it is x[0]
\* when x[0] is NaN or integer-valued, and 0.0 when x[0] is 2^-60.
C11_RidgeDependsOnFirstOnly ==
  (op = "f" /\ fn = "Ridge" /\ Len(x) >= 1) =>
    /\ fault = "none"
    /\ Known(ret)
    /\ ret = Ridge_f(<<x[1]>>).val
    /\ ((IsNaN(x[1]) \/ (IsFin(x[1]) /\ x[1].d = 1)) => ret = x[1])
    /\ (IsTiny(x[1]) => ret = Zero)

\* Ridge.f was called on (-5, 0, 0): the sum of squares is 0 and the zeroth
\* power of it is 1
C11_Witness ==
  /\ op = "f" /\ fn = "Ridge"
  /\ x = <<Int2F(-5), Zero, Zero>>
  /\ ret = Int2F(-5)

====
